---- MODULE Spec2Model ----
(***************************************************************************)
(* Presence, room and call-signalling relay of src/server.js.              *)
(*                                                                         *)
(* The registry `users` and the room directory `rooms` are the two module  *)
(* level objects of server.js.  The transport (socket.io) is modelled by   *)
(* what the handlers use of it: the set of open sockets                    *)
(* (io.sockets.sockets), the adapter's rooms (socket.join / socket.leave,  *)
(* every socket sits in the room named by its own id, io.to(id) is a       *)
(* broadcast to that room) and the emit operations.  Node runs one handler *)
(* to completion before the next event, so each handler is one action; the *)
(* promise callback of joinGroupCall and the setTimeout / setInterval      *)
(* callbacks are actions of their own.                                     *)
(*                                                                         *)
(* Not modelled: username, lastActive, preferredLanguage and the           *)
(* updateLanguagePreference handler that writes it (no handler's routing   *)
(* reads them), message bodies, the audio translation handlers (their code *)
(* is not in src/), and the second server of src/app/api/socket/route.js,  *)
(* which keeps a registry of its own.                                      *)
(***************************************************************************)
EXTENDS Integers, FiniteSets, Sequences, TLC

\* Bounds of the model.
MaxConn == 3        \* connections admitted in one run
MaxSidRoom == 1     \* clients may name the rooms "r" and the ids of sockets 1..MaxSidRoom
MaxPending == 1     \* allSockets() promises outstanding at once

UserIds == {"A", "B", "C"}
NoUser == "none"                       \* an absent receiverId / to / userId field
RoomNames == {"r"}
NoRoom == "none"                       \* an absent roomId field
SocketIds == 1 .. MaxConn

\* socket.id is a string; the room a socket joins on connection has that name.
Sid(s) == ToString(s)
RoomIds == RoomNames \cup {Sid(s) : s \in 1 .. MaxSidRoom}
AdapterRoomIds == RoomNames \cup {Sid(s) : s \in SocketIds}

VARIABLES
    nextId,        \* number of connections admitted so far (socket ids are 1..nextId)
    socketUser,    \* socket.user.userId of every admitted connection (the handlers' closure)
    sockets,       \* io.sockets.sockets: the ids of the open channels
    adapterRooms,  \* the transport's rooms: room id -> set of socket ids
    users,         \* const users = {}: socket id -> [socketId, userId, status]
    rooms,         \* const rooms = {}: room id -> set of userId
    timers,        \* socket ids whose disconnect handler's setTimeout has not fired
    pending,       \* allSockets() promises not yet resolved, oldest first
    joinedRooms,   \* history (SpecHist only): socket id -> room ids it issued joinRoom for
    joinedCalls,   \* history (SpecHist only): socket id -> room ids it issued joinGroupCall for
    announced,     \* history (SpecPresence only): userId -> status of its last userStatusChange
    ev,            \* the event whose handler ran last (Idle once its output is written)
    out            \* the messages that handler emitted, in order

vars == <<nextId, socketUser, sockets, adapterRooms, users, rooms, timers, pending,
          joinedRooms, joinedCalls, announced, ev, out>>

state == <<nextId, socketUser, sockets, adapterRooms, users, rooms, timers, pending>>
history == <<joinedRooms, joinedCalls>>

----------------------------------------------------------------------------
\* Events and messages

Event(kind, s, to, roomId, userId) ==
    [kind |-> kind, socket |-> s, to |-> to, roomId |-> roomId, userId |-> userId,
     sockets |-> {}]

Idle == [kind |-> "idle", socket |-> 0, to |-> NoUser, roomId |-> NoRoom,
         userId |-> NoUser, sockets |-> {}]

\* An emitted message: its event name, the sockets the transport delivers it to,
\* the user identity it carries (senderId / userId / from / fromUserId), the
\* socketId / fromSocketId it carries, its room, its status (userStatusChange)
\* or error message (connect_error), the `to` it echoes (incomingCallDelivered, userUnavailable) and the listed
\* participants (existingParticipants).
Msg(kind, to, userId, socketId, roomId) ==
    [kind |-> kind, to |-> to, userId |-> userId, socketId |-> socketId,
     roomId |-> roomId, status |-> "", target |-> NoUser, participants |-> {}]

\* io.to(room).emit: every socket in the room.
IoTo(room) == adapterRooms[room]

\* socket.to(room).emit: every socket in the room but the sender.
SocketTo(s, room) == adapterRooms[room] \ {s}

\* socket.emit: the socket itself, if its channel is open.
SocketEmit(s) == {s} \cap sockets

\* socket.broadcast.emit: every open socket but the sender.
Broadcast(s, open) == open \ {s}

Min(S) == CHOOSE x \in S : \A y \in S : x <= y
Max(S) == CHOOSE x \in S : \A y \in S : x >= y

----------------------------------------------------------------------------
\* Registry and directory helpers

Undefined == [socketId |-> 0, userId |-> NoUser, status |-> "undefined"]

\* Object.values(users).find(user => user.userId === userId): the first match in
\* insertion order, which is admission order.
Find(reg, userId) ==
    LET m == {sid \in DOMAIN reg : reg[sid].userId = userId}
    IN  IF m = {} THEN Undefined ELSE reg[Min(m)]

findUserByUserId(userId) == Find(users, userId)

Restrict(f, S) == [x \in S |-> f[x]]

\* Mutant: the delete also drops every other entry whose socket is closed.
DeleteUsersAndClosed(S) ==
    Restrict(users, {sid \in DOMAIN users : sid \notin S /\ sid \in sockets})

\* Mutant: the delete uses a key the registry does not have, and removes nothing.
DeleteUsersWrongKey(S) == users

\* delete users[sid] for every sid in S
DeleteUsers(S) == Restrict(users, DOMAIN users \ S)

\* Mutant: the room is deleted whether or not the set is empty.
DeleteMemberDropsRoom(rms, roomId, userId) ==
    IF roomId \notin DOMAIN rms THEN rms ELSE Restrict(rms, DOMAIN rms \ {roomId})

\* Mutant: the room is kept when its last member leaves.
DeleteMemberKeepRoom(rms, roomId, userId) ==
    IF roomId \notin DOMAIN rms THEN rms ELSE [rms EXCEPT ![roomId] = @ \ {userId}]

\* rooms[roomId].delete(userId); if size === 0 delete rooms[roomId]
DeleteMember(rms, roomId, userId) ==
    IF roomId \notin DOMAIN rms THEN rms
    ELSE IF rms[roomId] \ {userId} = {}
         THEN Restrict(rms, DOMAIN rms \ {roomId})
         ELSE [rms EXCEPT ![roomId] = @ \ {userId}]

\* Object.keys(rooms).forEach: delete userId from every room that has it
RemoveFromRooms(rms, userId) ==
    LET keep == {r \in DOMAIN rms : userId \notin rms[r] \/ rms[r] \ {userId} # {}}
    IN  [r \in keep |-> rms[r] \ {userId}]

\* if (!rooms[roomId]) rooms[roomId] = new Set(); rooms[roomId].add(userId)
AddMember(rms, roomId, userId) ==
    [r \in DOMAIN rms \cup {roomId} |->
        IF r = roomId
        THEN (IF r \in DOMAIN rms THEN rms[r] ELSE {}) \cup {userId}
        ELSE rms[r]]

\* socket.join(room) / socket.leave(room) on the adapter
AdapterJoin(s, room) == [adapterRooms EXCEPT ![room] = @ \cup {s}]
AdapterLeave(s, room) == [adapterRooms EXCEPT ![room] = @ \ {s}]

\* The credentials a new connection may carry: user names are interchangeable, so
\* a name is first used only after the names before it.
Used == {socketUser[s] : s \in 1 .. nextId}
Rank(u) == CHOOSE n \in 1 .. 3 : <<"A", "B", "C">>[n] = u
Credentials == {u \in UserIds : Rank(u) <= Cardinality(Used) + 1}

----------------------------------------------------------------------------
Init ==
    /\ nextId = 0
    /\ socketUser = <<>>
    /\ sockets = {}
    /\ adapterRooms = [r \in AdapterRoomIds |-> {}]
    /\ users = <<>>
    /\ rooms = [r \in {} |-> {}]
    /\ timers = {}
    /\ pending = <<>>
    /\ joinedRooms = [s \in SocketIds |-> {}]
    /\ joinedCalls = [s \in SocketIds |-> {}]
    /\ announced = [u \in UserIds |-> "none"]
    /\ ev = Idle
    /\ out = <<>>

\* The handler has returned and its packets are written: the event loop is free.
Drain ==
    /\ ev # Idle
    /\ ev' = Idle
    /\ out' = <<>>
    /\ UNCHANGED <<state, history, announced>>

\* Mutant: only the online status is broadcast.
StatusChangeOnlineOnly(s, userId, status, open) ==
    IF status = "online"
    THEN << [Msg("userStatusChange", Broadcast(s, open), userId, 0, NoRoom)
               EXCEPT !.status = status] >>
    ELSE <<>>

\* Mutant: the status change is emitted twice.
StatusChangeTwice(s, userId, status, open) ==
    LET m == [Msg("userStatusChange", Broadcast(s, open), userId, 0, NoRoom)
                EXCEPT !.status = status]
    IN  << m, m >>

\* socket.broadcast.emit('userStatusChange', {userId, status})
StatusChange(s, userId, status, open) ==
    << [Msg("userStatusChange", Broadcast(s, open), userId, 0, NoRoom)
          EXCEPT !.status = status] >>

\* Mutant: the admission evicts nothing.
OldConnectionsKept(s, userId) == {}

\* Mutant: the admission evicts every offline entry, whoever's it is.
OldConnectionsOffline(s, userId) ==
    {sid \in DOMAIN users :
        (users[sid].userId = userId \/ users[sid].status = "offline") /\ sid # s}

\* Object.keys(users).forEach(sid => users[sid].userId === userId && sid !== socket.id)
OldConnections(s, userId) == {sid \in DOMAIN users : users[sid].userId = userId /\ sid # s}

\* Mutant: the new entry is the user's previous entry under the new socket id,
\* { ...old, socketId }, status included.
RegisterFromOld(reg, s, userId) ==
    [sid \in DOMAIN reg \cup {s} |->
        IF sid = s
        THEN [socketId |-> s, userId |-> userId,
              status |-> IF Find(users, userId) = Undefined
                         THEN "online" ELSE Find(users, userId).status]
        ELSE reg[sid]]

\* users[socket.id] = { socketId: socket.id, userId, ..., status: 'online', ... }
Register(reg, s, userId) ==
    [sid \in DOMAIN reg \cup {s} |->
        IF sid = s
        THEN [socketId |-> s, userId |-> userId, status |-> "online"]
        ELSE reg[sid]]

\* io.on('connection'): evict the user's other entries, register, announce online.
Connection(userId) ==
    /\ ev = Idle
    /\ nextId < MaxConn
    /\ LET s == nextId + 1
       IN  /\ nextId' = s
           /\ socketUser' = Append(socketUser, userId)
           /\ sockets' = sockets \cup {s}
           /\ adapterRooms' = AdapterJoin(s, Sid(s))
           /\ users' = Register(DeleteUsers(OldConnections(s, userId)), s, userId)
           /\ ev' = Event("connection", s, NoUser, NoRoom, NoUser)
           /\ out' = StatusChange(s, userId, "online", sockets)
    /\ UNCHANGED <<rooms, timers, pending>>

\* A handshake's token: absent, or present with a signature that jwt.verify
\* accepts or rejects, and the userId of its payload.
NoToken == [present |-> FALSE, signed |-> FALSE, userId |-> NoUser]
Tokens ==
    {NoToken} \cup {[present |-> TRUE, signed |-> b, userId |-> u] :
                       b \in BOOLEAN, u \in Credentials}

NoTokenError == "Authentication error: No token provided"
InvalidTokenError == "Authentication error: Invalid token"

\* Mutant: the token is decoded without its signature being verified.
UseDecodeOnly(token) ==
    IF ~token.present
    THEN [error |-> NoTokenError, userId |-> NoUser]
    ELSE [error |-> "", userId |-> token.userId]

\* ioInstance.use((socket, next) => ...): next(new Error(...)) or socket.user =
\* decoded and next().
Use(token) ==
    IF ~token.present
    THEN [error |-> NoTokenError, userId |-> NoUser]
    ELSE IF ~token.signed
    THEN [error |-> InvalidTokenError, userId |-> NoUser]
    ELSE [error |-> "", userId |-> token.userId]

\* next(err): the transport refuses the handshake and sends the error to the
\* client that tried; no socket is opened and no handler is registered.
ConnectError(error) ==
    /\ ev = Idle
    /\ ev' = Event("connect_error", 0, NoUser, NoRoom, NoUser)
    /\ out' = << [Msg("connect_error", {}, NoUser, 0, NoRoom) EXCEPT !.status = error] >>
    /\ UNCHANGED state

\* A handshake: the middleware, then the connection handler if it called next().
Handshake(token) ==
    LET decoded == Use(token)
    IN  IF decoded.error = "" THEN Connection(decoded.userId) ELSE ConnectError(decoded.error)

\* socket.on('disconnect'): the transport has already closed the channel and taken
\* the socket out of every room when the handler runs.
Disconnect(s) ==
    /\ ev = Idle
    /\ s \in sockets
    /\ LET userId == socketUser[s]
           open == sockets \ {s}
       IN  /\ sockets' = open
           /\ adapterRooms' = [r \in AdapterRoomIds |-> adapterRooms[r] \ {s}]
           /\ ev' = Event("disconnect", s, NoUser, NoRoom, NoUser)
           /\ IF s \in DOMAIN users
              THEN /\ users' = [users EXCEPT ![s].status = "offline"]
                   /\ out' = StatusChange(s, userId, "offline", open)
                   /\ timers' = timers \cup {s}
                   /\ rooms' = RemoveFromRooms(rooms, userId)
              ELSE /\ out' = <<>>
                   /\ UNCHANGED <<users, timers, rooms>>
    /\ UNCHANGED <<nextId, socketUser, pending>>

\* Mutant: the timer looks the session up by the userId of its closure.
ExpiredByUser(s) == {sid \in DOMAIN users : users[sid].userId = socketUser[s]}

\* if (users[socket.id]?.status === 'offline'): what the timer of s deletes.
Expired(s) == {sid \in DOMAIN users : sid = s /\ users[sid].status = "offline"}

\* The setTimeout callback of the disconnect handler of socket s.
Timeout(s) ==
    /\ ev = Idle
    /\ s \in timers
    /\ timers' = timers \ {s}
    /\ users' = DeleteUsers(Expired(s))
    /\ ev' = Event("timeout", s, NoUser, NoRoom, NoUser)
    /\ out' = <<>>
    /\ UNCHANGED <<nextId, socketUser, sockets, adapterRooms, rooms, pending>>

\* Mutant: the test of the sweep is inverted, if (socket) for if (!socket).
StaleInverted == {sid \in DOMAIN users : sid \in sockets}

\* Mutant: the sweep's lookup never finds the socket, and every entry is deleted.
StaleAll == DOMAIN users

\* The entries the sweep deletes: those whose socket is not in io.sockets.sockets.
Stale == {sid \in DOMAIN users : sid \notin sockets}

\* The setInterval callback.
Sweep ==
    /\ ev = Idle
    /\ users' = DeleteUsers(Stale)
    /\ ev' = Event("sweep", 0, NoUser, NoRoom, NoUser)
    /\ out' = <<>>
    /\ UNCHANGED <<nextId, socketUser, sockets, adapterRooms, rooms, timers, pending>>

\* socket.on('joinRoom')
JoinRoom(s, roomId) ==
    /\ ev = Idle
    /\ s \in sockets
    /\ adapterRooms' = AdapterJoin(s, roomId)
    /\ rooms' = AddMember(rooms, roomId, socketUser[s])
    /\ ev' = Event("joinRoom", s, NoUser, roomId, NoUser)
    /\ out' = << Msg("userJoinedRoom", adapterRooms'[roomId] \ {s}, socketUser[s], 0, roomId) >>
    /\ UNCHANGED <<nextId, socketUser, sockets, users, timers, pending>>

\* socket.on('leaveRoom')
LeaveRoom(s, roomId) ==
    /\ ev = Idle
    /\ s \in sockets
    /\ adapterRooms' = AdapterLeave(s, roomId)
    /\ rooms' = DeleteMember(rooms, roomId, socketUser[s])
    /\ ev' = Event("leaveRoom", s, NoUser, roomId, NoUser)
    /\ out' = << Msg("userLeftRoom", adapterRooms'[roomId] \ {s}, socketUser[s], 0, roomId) >>
    /\ UNCHANGED <<nextId, socketUser, sockets, users, timers, pending>>

\* socket.on('callUser'): room broadcast, or the direct path with its delivery
\* report and the eviction of a registry entry whose socket is gone.
CallUser(s, to, roomId) ==
    /\ ev = Idle
    /\ s \in sockets
    /\ ev' = Event("callUser", s, to, roomId, NoUser)
    /\ LET userId == socketUser[s]
           toUser == findUserByUserId(to)
       IN  IF roomId # NoRoom
           THEN /\ out' = << Msg("incomingCall", SocketTo(s, roomId), userId, 0, roomId) >>
                /\ UNCHANGED users
           ELSE IF toUser # Undefined
           THEN IF toUser.socketId \in sockets
                THEN /\ out' = << Msg("incomingCall", IoTo(Sid(toUser.socketId)), userId, 0, NoRoom),
                                  [Msg("incomingCallDelivered", SocketEmit(s), NoUser,
                                       toUser.socketId, NoRoom) EXCEPT !.target = to] >>
                     /\ UNCHANGED users
                ELSE /\ users' = DeleteUsers({toUser.socketId})
                     /\ out' = << [Msg("userUnavailable", SocketEmit(s), NoUser, 0, NoRoom)
                                     EXCEPT !.target = to] >>
           ELSE /\ out' = <<>>
                /\ UNCHANGED users
    /\ UNCHANGED <<nextId, socketUser, sockets, adapterRooms, rooms, timers, pending>>

\* const { callRoomId, userId: joinUserId } = data; the announced userId is
\* joinUserId || userId.
AnnouncedUserId(joinUserId, userId) == IF joinUserId # NoUser THEN joinUserId ELSE userId

\* socket.on('joinGroupCall'): join, announce, and ask the adapter for the room's
\* sockets; the answer is used by the promise's callback (ExistingParticipants).
JoinGroupCall(s, callRoomId, joinUserId) ==
    /\ ev = Idle
    /\ s \in sockets
    /\ Len(pending) < MaxPending
    /\ adapterRooms' = AdapterJoin(s, callRoomId)
    /\ pending' = Append(pending, [socket |-> s, callRoomId |-> callRoomId,
                                   sockets |-> adapterRooms'[callRoomId]])
    /\ ev' = Event("joinGroupCall", s, NoUser, callRoomId, joinUserId)
    /\ out' = << Msg("userJoinedGroupCall", adapterRooms'[callRoomId] \ {s},
                     AnnouncedUserId(joinUserId, socketUser[s]), s, callRoomId) >>
    /\ UNCHANGED <<nextId, socketUser, sockets, users, rooms, timers>>

\* Mutant: the joiner is not filtered out of its own snapshot.
ParticipantsWithSelf(s, sids) ==
    {[socketId |-> sid, userId |-> users[sid].userId] : sid \in {x \in sids : x \in DOMAIN users}}

\* Array.from(sockets).filter(sid => sid !== socket.id).map(...).filter(p => p.userId)
Participants(s, sids) ==
    {[socketId |-> sid, userId |-> users[sid].userId] :
        sid \in {x \in sids \ {s} : x \in DOMAIN users}}

\* The .then callback of allSockets(): the oldest outstanding promise resolves.
ExistingParticipants ==
    /\ ev = Idle
    /\ pending # <<>>
    /\ LET q == Head(pending)
       IN  /\ ev' = [Event("existingParticipants", q.socket, NoUser, q.callRoomId, NoUser)
                       EXCEPT !.sockets = q.sockets]
           /\ out' = << [Msg("existingParticipants", SocketEmit(q.socket), NoUser, 0,
                             q.callRoomId)
                           EXCEPT !.participants = Participants(q.socket, q.sockets)] >>
    /\ pending' = Tail(pending)
    /\ UNCHANGED <<nextId, socketUser, sockets, adapterRooms, users, rooms, timers>>

\* socket.on('leaveGroupCall')
LeaveGroupCall(s, callRoomId) ==
    /\ ev = Idle
    /\ s \in sockets
    /\ adapterRooms' = AdapterLeave(s, callRoomId)
    /\ ev' = Event("leaveGroupCall", s, NoUser, callRoomId, NoUser)
    /\ out' = << Msg("userLeftGroupCall", adapterRooms'[callRoomId] \ {s}, socketUser[s], s,
                     callRoomId) >>
    /\ UNCHANGED <<nextId, socketUser, sockets, users, rooms, timers, pending>>

\* The handlers that only relay: the registry, the directory and the transport
\* are left as they are.
Relay(kind, s, to, roomId, msgs) ==
    /\ ev = Idle
    /\ s \in sockets
    /\ ev' = Event(kind, s, to, roomId, NoUser)
    /\ out' = msgs
    /\ UNCHANGED state

\* Mutant: a receiver that is not found falls through to the room branch.
ReceiverOrRoomFallsBack(kind, s, receiverId, roomId) ==
    LET receiverUser == findUserByUserId(receiverId)
    IN  IF receiverId # NoUser /\ receiverUser # Undefined
        THEN << Msg(kind, IoTo(Sid(receiverUser.socketId)), socketUser[s], 0,
                    IF kind = "receiveMessage" THEN roomId ELSE NoRoom) >>
        ELSE IF roomId # NoRoom
        THEN << Msg(kind, SocketTo(s, roomId), socketUser[s], 0,
                    IF kind = "receiveMessage" THEN roomId ELSE NoRoom) >>
        ELSE <<>>

\* if (receiverId) { receiver = find(receiverId); if (receiver) io.to(receiver.socketId) }
\* else if (roomId) socket.to(roomId)  -- sendMessage and typing
ReceiverOrRoom(kind, s, receiverId, roomId) ==
    LET receiverUser == findUserByUserId(receiverId)
    IN  IF receiverId # NoUser
        THEN IF receiverUser # Undefined
             THEN << Msg(kind, IoTo(Sid(receiverUser.socketId)), socketUser[s], 0,
                         IF kind = "receiveMessage" THEN roomId ELSE NoRoom) >>
             ELSE <<>>
        ELSE IF roomId # NoRoom
        THEN << Msg(kind, SocketTo(s, roomId), socketUser[s], 0,
                    IF kind = "receiveMessage" THEN roomId ELSE NoRoom) >>
        ELSE <<>>

\* if (roomId) socket.to(roomId) else { toUser = find(to); if (toUser) io.to(toUser.socketId) }
\* -- answerCall, iceCandidate, endCall
RoomOrTo(kind, s, to, roomId) ==
    LET toUser == findUserByUserId(to)
    IN  IF roomId # NoRoom
        THEN << Msg(kind, SocketTo(s, roomId), socketUser[s], 0, roomId) >>
        ELSE IF toUser # Undefined
        THEN << Msg(kind, IoTo(Sid(toUser.socketId)), socketUser[s], 0, NoRoom) >>
        ELSE <<>>

\* socket.on('sendMessage'): relay, then acknowledge to the sender
SendMessage(s, receiverId, roomId) ==
    Relay("sendMessage", s, receiverId, roomId,
          ReceiverOrRoom("receiveMessage", s, receiverId, roomId)
            \o << Msg("messageSent", SocketEmit(s), socketUser[s], 0, roomId) >>)

\* socket.on('typing')
Typing(s, receiverId, roomId) ==
    Relay("typing", s, receiverId, roomId, ReceiverOrRoom("userTyping", s, receiverId, roomId))

\* socket.on('answerCall')
AnswerCall(s, to, roomId) ==
    Relay("answerCall", s, to, roomId, RoomOrTo("callAnswered", s, to, roomId))

\* socket.on('iceCandidate')
IceCandidate(s, to, roomId) ==
    Relay("iceCandidate", s, to, roomId, RoomOrTo("iceCandidate", s, to, roomId))

\* socket.on('endCall')
EndCall(s, to, roomId) ==
    Relay("endCall", s, to, roomId, RoomOrTo("callEnded", s, to, roomId))

\* socket.on('incomingCallAck'): direct to the caller named by `from`
IncomingCallAck(s, from) ==
    Relay("incomingCallAck", s, from, NoRoom, RoomOrTo("incomingCallAck", s, from, NoRoom))

\* io.to(targetSocketId).emit(kind, {fromSocketId, fromUserId, ..., callRoomId});
\* targetSocketId is whatever string the client sent, a room of the adapter.
ToSocket(kind, s, targetSocketId, callRoomId) ==
    << Msg(kind, IoTo(targetSocketId), socketUser[s], s, callRoomId) >>

\* socket.on('groupCallOffer' / 'groupCallAnswer' / 'groupCallIceCandidate')
GroupCallOffer(s, targetSocketId, callRoomId) ==
    Relay("groupCallOffer", s, NoUser, callRoomId,
          ToSocket("groupCallOffer", s, targetSocketId, callRoomId))

GroupCallAnswer(s, targetSocketId, callRoomId) ==
    Relay("groupCallAnswer", s, NoUser, callRoomId,
          ToSocket("groupCallAnswer", s, targetSocketId, callRoomId))

GroupCallIceCandidate(s, targetSocketId, callRoomId) ==
    Relay("groupCallIceCandidate", s, NoUser, callRoomId,
          ToSocket("groupCallIceCandidate", s, targetSocketId, callRoomId))

\* socket.on('groupCallSpeaking')
GroupCallSpeaking(s, callRoomId) ==
    Relay("groupCallSpeaking", s, NoUser, callRoomId,
          << Msg("participantSpeaking", SocketTo(s, callRoomId), socketUser[s], 0, NoRoom) >>)

\* A room id a client can send besides a room name: the id of a socket that exists.
Nameable(roomId) == roomId \in RoomNames \/ \E k \in 1 .. nextId : roomId = Sid(k)

\* The payloads of the events that take a user or a room: one of the two, both,
\* or neither.
Targets == UserIds \cup {NoUser}
RoomArgs(R) == {r \in R : Nameable(r)} \cup {NoRoom}

\* A handler starts when the event loop is free.
Free == ev = Idle

\* Each handler with the inputs it may get; the room ids clients send are drawn
\* from R.
AnyConnection == \E userId \in Credentials : Connection(userId)
AnyHandshake == \E token \in Tokens : Handshake(token)
AnyDisconnect == \E s \in SocketIds : Disconnect(s)
AnyTimeout == \E s \in SocketIds : Timeout(s)
AnyJoinRoom(R) == \E s \in SocketIds, roomId \in R : Nameable(roomId) /\ JoinRoom(s, roomId)
AnyLeaveRoom(R) == \E s \in SocketIds, roomId \in R : Nameable(roomId) /\ LeaveRoom(s, roomId)
AnyCallUser(R) ==
    \E s \in SocketIds, to \in Targets, roomId \in RoomArgs(R) : CallUser(s, to, roomId)
AnyJoinGroupCall(R) ==
    \E s \in SocketIds, roomId \in R, joinUserId \in Targets :
        Nameable(roomId) /\ JoinGroupCall(s, roomId, joinUserId)
AnyLeaveGroupCall(R) ==
    \E s \in SocketIds, roomId \in R : Nameable(roomId) /\ LeaveGroupCall(s, roomId)
AnySendMessage(R) ==
    \E s \in SocketIds, to \in Targets, roomId \in RoomArgs(R) : SendMessage(s, to, roomId)
AnyTyping(R) ==
    \E s \in SocketIds, to \in Targets, roomId \in RoomArgs(R) : Typing(s, to, roomId)
AnyAnswerCall(R) ==
    \E s \in SocketIds, to \in Targets, roomId \in RoomArgs(R) : AnswerCall(s, to, roomId)
AnyIceCandidate(R) ==
    \E s \in SocketIds, to \in Targets, roomId \in RoomArgs(R) : IceCandidate(s, to, roomId)
AnyEndCall(R) ==
    \E s \in SocketIds, to \in Targets, roomId \in RoomArgs(R) : EndCall(s, to, roomId)
AnyIncomingCallAck == \E s \in SocketIds, from \in Targets : IncomingCallAck(s, from)
AnyGroupCallOffer ==
    \E s \in SocketIds, t \in AdapterRoomIds, roomId \in RoomNames :
        Nameable(t) /\ GroupCallOffer(s, t, roomId)
AnyGroupCallAnswer ==
    \E s \in SocketIds, t \in AdapterRoomIds, roomId \in RoomNames :
        Nameable(t) /\ GroupCallAnswer(s, t, roomId)
AnyGroupCallIceCandidate ==
    \E s \in SocketIds, t \in AdapterRoomIds, roomId \in RoomNames :
        Nameable(t) /\ GroupCallIceCandidate(s, t, roomId)
AnyGroupCallSpeaking(R) ==
    \E s \in SocketIds, roomId \in R : Nameable(roomId) /\ GroupCallSpeaking(s, roomId)

\* The history of the joins, read off the event that was handled.
Record ==
    /\ joinedRooms' = IF ev'.kind = "joinRoom"
                      THEN [joinedRooms EXCEPT ![ev'.socket] = @ \cup {ev'.roomId}]
                      ELSE joinedRooms
    /\ joinedCalls' = IF ev'.kind = "joinGroupCall"
                      THEN [joinedCalls EXCEPT ![ev'.socket] = @ \cup {ev'.roomId}]
                      ELSE joinedCalls
    /\ UNCHANGED announced

\* The status of the last userStatusChange for u, once msgs are emitted.
LastStatus(u, msgs) ==
    LET m == {i \in 1 .. Len(msgs) :
                msgs[i].kind = "userStatusChange" /\ msgs[i].userId = u}
    IN  IF m = {} THEN announced[u] ELSE msgs[Max(m)].status

\* The history of the presence announcements, read off the emitted messages.
RecordAnnounced ==
    /\ announced' = [u \in UserIds |-> LastStatus(u, out')]
    /\ UNCHANGED history

NoRecord == UNCHANGED <<history, announced>>

\* Every handler and callback that changes the registry, the directory or the
\* transport's rooms; clients name rooms by name.
Next ==
    \/ Drain
    \/ Free /\ AnyConnection /\ NoRecord
    \/ Free /\ AnyDisconnect /\ NoRecord
    \/ Free /\ AnyTimeout /\ NoRecord
    \/ Free /\ Sweep /\ NoRecord
    \/ Free /\ AnyJoinRoom(RoomNames) /\ NoRecord
    \/ Free /\ AnyLeaveRoom(RoomNames) /\ NoRecord
    \/ Free /\ AnyCallUser(RoomNames) /\ NoRecord
    \/ Free /\ AnyJoinGroupCall(RoomNames) /\ NoRecord
    \/ Free /\ ExistingParticipants /\ NoRecord
    \/ Free /\ AnyLeaveGroupCall(RoomNames) /\ NoRecord

Spec == Init /\ [][Next]_vars

\* The same as Spec, with the handshakes the authentication middleware refuses.
NextAuth ==
    \/ Drain
    \/ Free /\ AnyHandshake /\ NoRecord
    \/ Free /\ AnyDisconnect /\ NoRecord
    \/ Free /\ AnyTimeout /\ NoRecord
    \/ Free /\ Sweep /\ NoRecord
    \/ Free /\ AnyJoinRoom(RoomNames) /\ NoRecord
    \/ Free /\ AnyLeaveRoom(RoomNames) /\ NoRecord
    \/ Free /\ AnyCallUser(RoomNames) /\ NoRecord
    \/ Free /\ AnyJoinGroupCall(RoomNames) /\ NoRecord
    \/ Free /\ ExistingParticipants /\ NoRecord
    \/ Free /\ AnyLeaveGroupCall(RoomNames) /\ NoRecord

SpecAuth == Init /\ [][NextAuth]_vars

\* The lifecycle alone, with its scheduling: a handler that has run returns
\* (Drain), and the event loop, which is free again after every handler, runs
\* the setInterval callback and every setTimeout callback that is due. The
\* callbacks are not enabled while a handler runs, so their fairness is strong.
NextFair ==
    \/ Drain
    \/ Free /\ AnyConnection /\ NoRecord
    \/ Free /\ AnyDisconnect /\ NoRecord
    \/ Free /\ AnyTimeout /\ NoRecord
    \/ Free /\ Sweep /\ NoRecord
    \/ Free /\ AnyJoinRoom(RoomNames) /\ NoRecord
    \/ Free /\ AnyCallUser(RoomNames) /\ NoRecord

Fairness ==
    /\ WF_vars(Drain)
    /\ SF_vars(Free /\ Sweep /\ NoRecord)
    /\ \A s \in SocketIds : SF_vars(Free /\ Timeout(s) /\ NoRecord)

SpecFair == Init /\ [][NextFair]_vars /\ Fairness

\* The same as Spec, with the history of the presence announcements recorded.
NextPresence ==
    \/ Drain
    \/ Free /\ AnyConnection /\ RecordAnnounced
    \/ Free /\ AnyDisconnect /\ RecordAnnounced
    \/ Free /\ AnyTimeout /\ RecordAnnounced
    \/ Free /\ Sweep /\ RecordAnnounced
    \/ Free /\ AnyJoinRoom(RoomNames) /\ RecordAnnounced
    \/ Free /\ AnyLeaveRoom(RoomNames) /\ RecordAnnounced
    \/ Free /\ AnyCallUser(RoomNames) /\ RecordAnnounced
    \/ Free /\ AnyJoinGroupCall(RoomNames) /\ RecordAnnounced
    \/ Free /\ ExistingParticipants /\ RecordAnnounced
    \/ Free /\ AnyLeaveGroupCall(RoomNames) /\ RecordAnnounced

SpecPresence == Init /\ [][NextPresence]_vars

\* The same, with the history of the joins recorded.
NextHist ==
    \/ Drain
    \/ Free /\ AnyConnection /\ Record
    \/ Free /\ AnyDisconnect /\ Record
    \/ Free /\ AnyTimeout /\ Record
    \/ Free /\ Sweep /\ Record
    \/ Free /\ AnyJoinRoom(RoomNames) /\ Record
    \/ Free /\ AnyLeaveRoom(RoomNames) /\ Record
    \/ Free /\ AnyCallUser(RoomNames) /\ Record
    \/ Free /\ AnyJoinGroupCall(RoomNames) /\ Record
    \/ Free /\ ExistingParticipants /\ Record
    \/ Free /\ AnyLeaveGroupCall(RoomNames) /\ Record

SpecHist == Init /\ [][NextHist]_vars

\* The same as Spec, with the handlers that only relay.
NextRelay ==
    \/ Drain
    \/ Free /\ AnyConnection /\ NoRecord
    \/ Free /\ AnyDisconnect /\ NoRecord
    \/ Free /\ AnyTimeout /\ NoRecord
    \/ Free /\ Sweep /\ NoRecord
    \/ Free /\ AnyJoinRoom(RoomNames) /\ NoRecord
    \/ Free /\ AnyLeaveRoom(RoomNames) /\ NoRecord
    \/ Free /\ AnyCallUser(RoomNames) /\ NoRecord
    \/ Free /\ AnyJoinGroupCall(RoomNames) /\ NoRecord
    \/ Free /\ ExistingParticipants /\ NoRecord
    \/ Free /\ AnyLeaveGroupCall(RoomNames) /\ NoRecord
    \/ Free /\ AnySendMessage(RoomNames) /\ NoRecord
    \/ Free /\ AnyTyping(RoomNames) /\ NoRecord
    \/ Free /\ AnyAnswerCall(RoomNames) /\ NoRecord
    \/ Free /\ AnyIceCandidate(RoomNames) /\ NoRecord
    \/ Free /\ AnyEndCall(RoomNames) /\ NoRecord
    \/ Free /\ AnyIncomingCallAck /\ NoRecord
    \/ Free /\ AnyGroupCallOffer /\ NoRecord
    \/ Free /\ AnyGroupCallAnswer /\ NoRecord
    \/ Free /\ AnyGroupCallIceCandidate /\ NoRecord
    \/ Free /\ AnyGroupCallSpeaking(RoomNames) /\ NoRecord

SpecRelay == Init /\ [][NextRelay]_vars

\* Clients also naming rooms by the ids of sockets: admission, disconnect, the
\* chat rooms and the events addressed to a user or a room.
NextSid ==
    \/ Drain
    \/ Free /\ AnyConnection /\ NoRecord
    \/ Free /\ AnyDisconnect /\ NoRecord
    \/ Free /\ AnyTimeout /\ NoRecord
    \/ Free /\ Sweep /\ NoRecord
    \/ Free /\ AnyJoinRoom(RoomIds) /\ NoRecord
    \/ Free /\ AnyLeaveRoom(RoomIds) /\ NoRecord
    \/ Free /\ AnyCallUser(RoomIds) /\ NoRecord
    \/ Free /\ AnySendMessage(RoomIds) /\ NoRecord
    \/ Free /\ AnyTyping(RoomIds) /\ NoRecord
    \/ Free /\ AnyAnswerCall(RoomIds) /\ NoRecord
    \/ Free /\ AnyIceCandidate(RoomIds) /\ NoRecord
    \/ Free /\ AnyEndCall(RoomIds) /\ NoRecord
    \/ Free /\ AnyIncomingCallAck /\ NoRecord

SpecSid == Init /\ [][NextSid]_vars

----------------------------------------------------------------------------
\* Claims

\* The connection admitted last for userId (0 if there is none).
MostRecentAdmission(userId) ==
    LET a == {s \in 1 .. nextId : socketUser[s] = userId}
    IN  IF a = {} THEN 0 ELSE Max(a)

\* The messages of `out` of one kind, and those among them delivered to socket s.
OutOf(kind) == {i \in 1 .. Len(out) : out[i].kind = kind}
Delivered(kind, s) == {i \in OutOf(kind) : s \in out[i].to}

\* C1 (Invariant I1): the registry holds at most one session per userId, and a
\* lookup by userId returns nothing or the session of the connection admitted
\* last for that userId, never the session of an earlier connection.
C1_OneSessionPerUser ==
    /\ \A a, b \in DOMAIN users : users[a].userId = users[b].userId => a = b
    /\ \A sid \in DOMAIN users :
          users[sid].socketId = sid /\ users[sid].userId = socketUser[sid]
    /\ \A u \in UserIds :
          findUserByUserId(u) # Undefined
            => findUserByUserId(u).socketId = MostRecentAdmission(u)

\* A user has two open connections and the lookup returns the newer one.
C1_Witness ==
    \E a, b \in sockets :
        /\ a < b
        /\ socketUser[a] = socketUser[b]
        /\ findUserByUserId(socketUser[b]).socketId = b

\* C2 (Invariant I2): no key of the room directory maps to an empty member set.
C2_NoEmptyRoom == \A r \in DOMAIN rooms : rooms[r] # {}

\* A leaveRoom has been handled and took its user out of a room that another
\* user keeps alive.
C2_Witness ==
    /\ ev.kind = "leaveRoom"
    /\ ev.roomId \in DOMAIN rooms
    /\ socketUser[ev.socket] \notin rooms[ev.roomId]
    /\ ev.socket \in DOMAIN users

\* C3 as stated: the existingParticipants message sent to a joiner that is still
\* connected lists exactly the other sockets that were in the call room when it
\* joined.
C3_ListsEveryMember ==
    (ev.kind = "existingParticipants" /\ ev.socket \in sockets)
      => /\ Len(out) = 1
         /\ out[1].kind = "existingParticipants"
         /\ out[1].to = {ev.socket}
         /\ {p.socketId : p \in out[1].participants} = ev.sockets \ {ev.socket}

\* C3 as amended: the joiner, if still connected, receives exactly one
\* existingParticipants message, listing exactly the other sockets that were in
\* the call room when it joined and that have a registry entry when the list is
\* built, each with its own userId; and every other socket in the room receives
\* exactly one userJoinedGroupCall carrying the joiner's socket id.
C3_ListsRegisteredMembers ==
    /\ ev.kind = "existingParticipants"
         => /\ Len(out) = 1
            /\ out[1].kind = "existingParticipants"
            /\ out[1].to = {ev.socket} \cap sockets
            /\ out[1].roomId = ev.roomId
            /\ out[1].participants =
                 {[socketId |-> sid, userId |-> socketUser[sid]] :
                    sid \in (ev.sockets \ {ev.socket}) \cap DOMAIN users}
    /\ ev.kind = "joinGroupCall"
         => /\ Len(out) = 1
            /\ out[1].kind = "userJoinedGroupCall"
            /\ out[1].socketId = ev.socket
            /\ out[1].to = adapterRooms[ev.roomId] \ {ev.socket}

\* C joined a call room that held the sockets of two other users, both
\* registered, and has received the list naming the two.
C3_Witness ==
    /\ ev.kind = "existingParticipants"
    /\ Len(out) = 1
    /\ out[1].to = {ev.socket}
    /\ Cardinality(out[1].participants) = 2
    /\ Cardinality({p.userId : p \in out[1].participants} \cup {socketUser[ev.socket]}) = 3
    /\ {p.socketId : p \in out[1].participants} = ev.sockets \ {ev.socket}

\* The step removes the offline entry of socket s from the registry.
RemovesOffline(s) ==
    /\ s \in DOMAIN users
    /\ users[s].status = "offline"
    /\ s \notin DOMAIN users'

\* The step is the deletion timer of s, or the admission of a connection of the
\* same user.
ByTimerOrAdmission(s) ==
    \/ ev'.kind = "timeout" /\ ev'.socket = s
    \/ ev'.kind = "connection" /\ socketUser'[ev'.socket] = users[s].userId

\* The step is a sweep, or a callUser naming the user directly.
BySweepOrCall(s) ==
    \/ ev'.kind = "sweep"
    \/ ev'.kind = "callUser" /\ ev'.roomId = NoRoom /\ ev'.to = users[s].userId

\* The step leaves the offline entry of s as it is, and the lookup returns it.
KeepsOffline(s) ==
    (s \in DOMAIN users /\ users[s].status = "offline" /\ s \in DOMAIN users')
      => /\ users'[s] = users[s]
         /\ Find(users', users[s].userId) = users[s]

\* C4 as stated: an offline session is removed from the registry only by its
\* deletion timer or by the admission of a new connection of its user.
C4_OnlyTimerOrAdmission ==
    [][\A s \in SocketIds : RemovesOffline(s) => ByTimerOrAdmission(s)]_vars

\* C4 as amended: after a disconnect the session stays in the registry, offline
\* and returned by the lookup, until its deletion timer fires, a new connection
\* of its user is admitted, the periodic sweep runs, or a callUser names the user
\* directly; no other event removes or changes it.
C4_OfflineRetained ==
    [][\A s \in SocketIds :
          /\ KeepsOffline(s)
          /\ RemovesOffline(s) => (ByTimerOrAdmission(s) \/ BySweepOrCall(s))]_vars

\* A's session is offline with its timer pending, the lookup returns it, and a
\* callUser that names another user directly has just been handled.
C4_Witness ==
    \E s \in DOMAIN users :
        /\ users[s].status = "offline"
        /\ s \in timers
        /\ findUserByUserId(users[s].userId) = users[s]
        /\ ev.kind = "callUser"
        /\ ev.roomId = NoRoom
        /\ ev.to \notin {NoUser, users[s].userId}

\* C5: after the disconnect handler of a connection, its userId is a member of
\* no chat room the connection had joined.
C5_LeftJoinedRooms ==
    ev.kind = "disconnect"
      => \A r \in joinedRooms[ev.socket] :
            r \notin DOMAIN rooms \/ socketUser[ev.socket] \notin rooms[r]

\* The offline announcements of the disconnect just handled.
OfflineAnnouncements ==
    {i \in OutOf("userStatusChange") :
        out[i].status = "offline" /\ out[i].userId = socketUser[ev.socket]}

\* C6 as stated: every disconnect broadcasts exactly one userStatusChange offline.
C6_AlwaysOneOffline ==
    ev.kind = "disconnect" => (Len(out) = 1 /\ Cardinality(OfflineAnnouncements) = 1)

\* C6 as amended: a disconnect broadcasts exactly one userStatusChange offline,
\* to every other open connection, if the connection's registry entry is still
\* there when the disconnect is handled, and nothing if the entry is gone; the
\* entry of an open connection is gone only if a newer connection of the same
\* user was admitted.
C6_OneOfflineIfRegistered ==
    [][\A s \in sockets :
          /\ s \notin DOMAIN users => MostRecentAdmission(socketUser[s]) > s
          /\ (ev'.kind = "disconnect" /\ ev'.socket = s)
               => IF s \in DOMAIN users
                  THEN /\ Len(out') = 1
                       /\ out'[1].kind = "userStatusChange"
                       /\ out'[1].status = "offline"
                       /\ out'[1].userId = socketUser[s]
                       /\ out'[1].to = sockets \ {s}
                  ELSE out' = <<>>]_vars

\* A registered connection has disconnected while another connection was open,
\* and the offline announcement went to it.
C6_Witness ==
    /\ ev.kind = "disconnect"
    /\ ev.socket \in DOMAIN users
    /\ Len(out) = 1
    /\ out[1].to # {}
    /\ out[1].status = "offline"

\* C7: the user identity carried by a message that reaches a recipient is the
\* userId of the verified credential of the connection that sent the inbound
\* event.
C7_IdentityFromCredential ==
    \A i \in 1 .. Len(out) :
        (out[i].userId # NoUser /\ out[i].to # {})
          => out[i].userId = socketUser[ev.socket]

\* The events of group calls and of chat rooms that go to a room.
CallRoomKinds == {"userJoinedGroupCall", "userLeftGroupCall", "participantSpeaking"}
ChatRoomKinds == {"userJoinedRoom", "userLeftRoom", "receiveMessage", "userTyping"}

\* Socket b has issued joinRoom(r) and never joinGroupCall(r), or the reverse.
OnlyJoinedRoom(b, r) == r \in joinedRooms[b] /\ r \notin joinedCalls[b]
OnlyJoinedCall(b, r) == r \in joinedCalls[b] /\ r \notin joinedRooms[b]

\* C8: a connection that only issued joinRoom(r) receives no group-call event of
\* call room r and is not listed in its existingParticipants; a connection that
\* only issued joinGroupCall(r) receives no chat-room broadcast of chat room r.
C8_NamespacesDisjoint ==
    \A i \in 1 .. Len(out), b \in SocketIds :
        /\ (out[i].kind \in CallRoomKinds /\ OnlyJoinedRoom(b, ev.roomId))
              => b \notin out[i].to
        /\ (out[i].kind = "existingParticipants" /\ OnlyJoinedRoom(b, ev.roomId))
              => b \notin {p.socketId : p \in out[i].participants}
        /\ (out[i].kind \in ChatRoomKinds /\ ev.to = NoUser /\ OnlyJoinedCall(b, ev.roomId))
              => b \notin out[i].to

\* C9: a sendMessage naming receiver B, from a connected and registered sender,
\* while B's most recently admitted connection is open and registered, yields
\* exactly one receiveMessage, delivered to that connection and no other, and
\* exactly one messageSent, delivered to the sender's connection.
C9_DirectMessage ==
    LET b == MostRecentAdmission(ev.to)
    IN  (/\ ev.kind = "sendMessage"
         /\ ev.to # NoUser
         /\ ev.socket \in sockets \cap DOMAIN users
         /\ b \in sockets \cap DOMAIN users)
          => /\ Len(out) = 2
             /\ out[1].kind = "receiveMessage"
             /\ out[1].to = {b}
             /\ out[1].userId = socketUser[ev.socket]
             /\ out[2].kind = "messageSent"
             /\ out[2].to = {ev.socket}

\* The typing and call events addressed to a user or a room.
AddressedKinds ==
    {"userTyping", "incomingCall", "callAnswered", "iceCandidate", "callEnded",
     "incomingCallAck"}

\* C10: a connection receives a userTyping or call event only if the inbound
\* event named its user as the direct target or named a room the connection is
\* a member of.
C10_RoutingIsolation ==
    \A i \in 1 .. Len(out) :
        out[i].kind \in AddressedKinds
          => \A b \in out[i].to :
                \/ ev.to = socketUser[b]
                \/ ev.roomId # NoRoom /\ b \in adapterRooms[ev.roomId]

\* C11: a callUser naming B directly (no roomId), from a live connection, while
\* B's most recently admitted connection is live, makes that connection receive
\* exactly one incomingCall carrying the caller's userId, and makes the caller
\* receive exactly one incomingCallDelivered naming B and no userUnavailable.
C11_DirectCall ==
    LET b == MostRecentAdmission(ev.to)
    IN  (/\ ev.kind = "callUser"
         /\ ev.roomId = NoRoom
         /\ ev.to # NoUser
         /\ ev.socket \in sockets
         /\ b \in sockets)
          => /\ Cardinality(Delivered("incomingCall", b)) = 1
             /\ \A i \in OutOf("incomingCall") : out[i].userId = socketUser[ev.socket]
             /\ Cardinality(Delivered("incomingCallDelivered", ev.socket)) = 1
             /\ \A i \in OutOf("incomingCallDelivered") : out[i].target = ev.to
             /\ OutOf("userUnavailable") = {}

\* C12: a callUser on the direct path whose target has a registry entry with a
\* closed channel sends the caller exactly one userUnavailable naming the target
\* and nothing else to anyone, and removes exactly that entry; a callUser whose
\* target has no registry entry sends nothing and leaves the registry as it was.
\* Neither touches the room directory.
C12_StaleTarget ==
    [][(ev'.kind = "callUser" /\ ev'.roomId = NoRoom)
         => LET toUser == Find(users, ev'.to)
            IN  /\ (toUser # Undefined /\ toUser.socketId \notin sockets)
                      => /\ Len(out') = 1
                         /\ out'[1].kind = "userUnavailable"
                         /\ out'[1].to = {ev'.socket}
                         /\ out'[1].target = ev'.to
                         /\ DOMAIN users' = DOMAIN users \ {toUser.socketId}
                         /\ \A sid \in DOMAIN users' : users'[sid] = users[sid]
                /\ toUser = Undefined => (out' = <<>> /\ users' = users)
                /\ rooms' = rooms]_vars

\* A callUser has found its target's channel closed: the caller has its
\* userUnavailable, the target's entry is gone, and the offline entry of another
\* user is still in the registry.
C12_Witness ==
    /\ ev.kind = "callUser"
    /\ Len(out) = 1
    /\ out[1].kind = "userUnavailable"
    /\ out[1].to = {ev.socket}
    /\ Find(users, ev.to) = Undefined
    /\ \E sid \in DOMAIN users : users[sid].status = "offline"

\* C13: one run of the sweep removes exactly the registry entries whose socket
\* is not open, leaves every entry of an open socket as it is, and leaves the room
\* directory unchanged.
C13_SweepReconciles ==
    [][ev'.kind = "sweep"
         => /\ DOMAIN users' = DOMAIN users \cap sockets
            /\ \A sid \in DOMAIN users' : users'[sid] = users[sid]
            /\ rooms' = rooms
            /\ sockets' = sockets]_vars

\* A sweep has run with an online entry of an open socket in the registry, which
\* is still there, and the entry of a disconnected socket whose timer is pending
\* is gone although no newer connection of its user was admitted.
C13_Witness ==
    /\ ev.kind = "sweep"
    /\ \E sid \in DOMAIN users : sid \in sockets /\ users[sid].status = "online"
    /\ \E s \in timers :
          /\ s \notin DOMAIN users
          /\ MostRecentAdmission(socketUser[s]) = s

\* The handshake presented a token that is missing or fails verification.
Unverified(token) == ~token.present \/ ~token.signed

\* C14: a handshake whose token is missing or fails verification is refused with
\* an error that tells the two causes apart; it creates no registry entry, opens
\* no socket, and broadcasts no userStatusChange; and every registry entry
\* belongs to an admitted connection and carries the userId of its verified
\* token.
C14_AdmissionGate ==
    [][/\ \A token \in Tokens :
             (Handshake(token) /\ Unverified(token))
               => /\ UNCHANGED state
                  /\ ev'.kind = "connect_error"
                  /\ Len(out') = 1
                  /\ out'[1].kind = "connect_error"
                  /\ out'[1].to = {}
                  /\ out'[1].status =
                       (IF token.present THEN InvalidTokenError ELSE NoTokenError)
       /\ NoTokenError # InvalidTokenError
       /\ ev'.kind = "connect_error" => (UNCHANGED state /\ OutOf("userStatusChange") = {})
       /\ \A sid \in DOMAIN users' :
             sid \in 1 .. nextId' /\ users'[sid].userId = socketUser'[sid]]_vars

\* A handshake with an invalid token has been refused while another user was
\* registered and connected.
C14_Witness ==
    /\ ev.kind = "connect_error"
    /\ Len(out) = 1
    /\ out[1].status = InvalidTokenError
    /\ \E sid \in DOMAIN users : sid \in sockets

\* C15: when the timer set by the disconnect of connection c fires, it deletes
\* the registry entry keyed by c if that entry exists with status offline, and
\* changes nothing else; if a newer connection of the same userId was admitted
\* before it fires, it changes nothing at all.
C15_TimerSafety ==
    [][ev'.kind = "timeout"
         => LET c == ev'.socket
            IN  /\ DOMAIN users \ DOMAIN users' \subseteq {c}
                /\ \A sid \in DOMAIN users' : sid \in DOMAIN users /\ users'[sid] = users[sid]
                /\ c \in DOMAIN users \ DOMAIN users' => users[c].status = "offline"
                /\ (c \in DOMAIN users /\ users[c].status = "offline") => c \notin DOMAIN users'
                /\ MostRecentAdmission(socketUser[c]) > c => users' = users
                /\ rooms' = rooms /\ sockets' = sockets]_vars

\* The timer of a disconnected connection has fired after a newer connection of
\* the same user was admitted, and the newer session is in the registry, online.
C15_Witness ==
    /\ ev.kind = "timeout"
    /\ \E sid \in DOMAIN users :
          /\ sid > ev.socket
          /\ users[sid].userId = socketUser[ev.socket]
          /\ users[sid].status = "online"

\* C16: a sendMessage that names a receiverId with no registry entry delivers no
\* receiveMessage to anyone, sends the sender exactly one messageSent, and
\* leaves the registry, the room directory and the open sockets as they were.
C16_UnresolvedReceiver ==
    [][(ev'.kind = "sendMessage" /\ ev'.to # NoUser /\ Find(users, ev'.to) = Undefined)
         => /\ Len(out') = 1
            /\ out'[1].kind = "messageSent"
            /\ out'[1].to = {ev'.socket}
            /\ out'[1].userId = socketUser[ev'.socket]
            /\ users' = users
            /\ rooms' = rooms
            /\ sockets' = sockets]_vars

\* A sendMessage named a receiver that is not registered and a room that holds
\* another socket; only the acknowledgement was sent.
C16_Witness ==
    /\ ev.kind = "sendMessage"
    /\ ev.to # NoUser
    /\ Find(users, ev.to) = Undefined
    /\ ev.roomId # NoRoom
    /\ adapterRooms[ev.roomId] \ {ev.socket} # {}
    /\ Len(out) = 1
    /\ out[1].kind = "messageSent"
    /\ users # <<>>

\* C17: a leaveRoom by a user who is not a member of the room, or for a room
\* the directory does not have, leaves the directory exactly as it was; and
\* after any leaveRoom, the same leave applied again changes nothing.
C17_LeaveIdempotent ==
    [][ev'.kind = "leaveRoom"
         => LET userId == socketUser[ev'.socket]
                roomId == ev'.roomId
            IN  /\ (roomId \notin DOMAIN rooms \/ userId \notin rooms[roomId])
                      => rooms' = rooms
                /\ DeleteMember(rooms', roomId, userId) = rooms'
                /\ DeleteMember(DeleteMember(rooms, roomId, userId), roomId, userId)
                      = DeleteMember(rooms, roomId, userId)]_vars

\* A connection has left a room that no connection of its user ever joined, and
\* the room is still in the directory with its members.
C17_Witness ==
    /\ ev.kind = "leaveRoom"
    /\ ev.roomId \in DOMAIN rooms
    /\ \A s \in 1 .. nextId :
          socketUser[s] = socketUser[ev.socket] => ev.roomId \notin joinedRooms[s]

\* C18: a registry entry appears only at the admission of its connection, with
\* status online and under a socket id no connection had before; its status
\* changes only from online to offline, at that connection's disconnect; so an
\* offline entry never goes back online and a deleted entry is never created
\* again.
C18_ForwardOnly ==
    [][\A s \in SocketIds :
          /\ (s \notin DOMAIN users /\ s \in DOMAIN users')
                => /\ ev'.kind = "connection"
                   /\ ev'.socket = s
                   /\ s > nextId
                   /\ users'[s].status = "online"
          /\ (s \in DOMAIN users /\ s \in DOMAIN users' /\ users'[s] # users[s])
                => /\ ev'.kind = "disconnect"
                   /\ ev'.socket = s
                   /\ users[s].status = "online"
                   /\ users'[s] = [users[s] EXCEPT !.status = "offline"]
          /\ (s \in DOMAIN users /\ users[s].status = "offline" /\ s \in DOMAIN users')
                => users'[s].status = "offline"
          /\ (s <= nextId /\ s \notin DOMAIN users) => s \notin DOMAIN users']_vars

\* A user's first session went offline and was superseded: the registry holds
\* the online entry of the user's newer connection and no entry for the old one,
\* and the newer connection has now disconnected.
C18_Witness ==
    /\ ev.kind = "disconnect"
    /\ ev.socket \in DOMAIN users
    /\ users[ev.socket].status = "offline"
    /\ \E s \in 1 .. nextId :
          /\ s < ev.socket
          /\ socketUser[s] = socketUser[ev.socket]
          /\ s \notin DOMAIN users

\* C19: every registry entry whose socket has closed is eventually removed from
\* the registry.
C19_EventuallyReclaimed ==
    \A s \in SocketIds :
        (s \in DOMAIN users /\ s \notin sockets) ~> (s \notin DOMAIN users)

\* The sweep or a timer has just run, and the entry of a closed socket whose
\* user has no newer connection is no longer in the registry.
C19_Witness ==
    /\ ev.kind \in {"sweep", "timeout"}
    /\ \E s \in 1 .. nextId :
          /\ s \notin sockets
          /\ s \notin DOMAIN users
          /\ MostRecentAdmission(socketUser[s]) = s

\* C20: an online session whose socket is open before and after a step stays in
\* the registry unchanged, unless the step is the admission of a newer
\* connection of the same userId, which removes it; no sweep, timer, callUser or
\* other event deletes it or marks it offline.
C20_LiveOnlineKept ==
    [][\A s \in SocketIds :
          (s \in DOMAIN users /\ users[s].status = "online" /\ s \in sockets /\ s \in sockets')
            => \/ s \in DOMAIN users' /\ users'[s] = users[s]
               \/ /\ s \notin DOMAIN users'
                  /\ ev'.kind = "connection"
                  /\ ev'.socket > s
                  /\ socketUser'[ev'.socket] = users[s].userId]_vars

\* A callUser has named a user whose session is online with its socket open,
\* while the registry also held a session whose socket is closed; the online
\* session is still there and the call was delivered.
C20_Witness ==
    /\ ev.kind = "callUser"
    /\ ev.roomId = NoRoom
    /\ Find(users, ev.to) # Undefined
    /\ Find(users, ev.to).status = "online"
    /\ Find(users, ev.to).socketId \in sockets
    /\ OutOf("incomingCallDelivered") # {}
    /\ \E sid \in DOMAIN users : sid \notin sockets

\* C21: a userId with no entry in the registry is a member of no room of the
\* directory.
C21_NoMembershipWithoutSession ==
    \A u \in UserIds :
        Find(users, u) = Undefined => \A r \in DOMAIN rooms : u \notin rooms[r]

\* The step removes the entry of socket s and admits no newer connection of its
\* user.
RemovedNotSuperseded(s) ==
    /\ s \in DOMAIN users
    /\ s \notin DOMAIN users'
    /\ ~(ev'.kind = "connection" /\ socketUser'[ev'.socket] = users[s].userId)

\* C22: when a session is removed from the registry without being superseded
\* by a newer connection of its user, the last userStatusChange broadcast for
\* that userId, before or at the removal, is offline; so a user with no entry in
\* the registry is never left announced as online.
C22_PresenceConsistent ==
    [][/\ \A s \in SocketIds :
             RemovedNotSuperseded(s) => announced'[users[s].userId] = "offline"
       /\ \A u \in UserIds :
             Find(users', u) = Undefined => announced'[u] # "online"
       /\ \A sid \in DOMAIN users' :
             sid \notin DOMAIN users => announced'[users'[sid].userId] = "online"]_vars

\* A user's only session has been removed by the sweep or by its timer, after
\* its offline announcement, while another user is registered and online.
C22_Witness ==
    /\ ev.kind \in {"sweep", "timeout"}
    /\ \E u \in UserIds :
          /\ Find(users, u) = Undefined
          /\ announced[u] = "offline"
    /\ \E sid \in DOMAIN users : users[sid].status = "online" /\ sid \in sockets

====
